---- MODULE Spec2Model ----
(***************************************************************************)
(* Retry driver of kei6u/retry (calculator-based revision): retrier.Next   *)
(* and the three interval calculators Constant, Jitter and                 *)
(* ExponentialBackoff.                                                     *)
(*                                                                         *)
(* Time is counted in milliseconds.  A call of Next is split at its only   *)
(* suspension point, the select statement: NextCall runs the code up to    *)
(* the select (and returns at once on the first-call and the               *)
(* attempts-exhausted paths), NextCtxDone and NextTimeAfter are the two    *)
(* cases of the select, each followed by the deferred r.attempts++.        *)
(***************************************************************************)
EXTENDS Integers, Sequences, FiniteSets, TLC

VARIABLES
    cfg,                    \* the algorithm value handed to New
    defaultTimeoutDuration, \* the package-level default timeout
    calculator,             \* the calculator embedded in the retrier
    ctx,                    \* r.ctx: which context the retrier holds
    maxAttempts,            \* r.maxAttempts
    attempts,               \* r.attempts
    signal,                 \* the context object: deadline timer and Done
    pc,                     \* "idle": no call in progress; "select": blocked
    after,                  \* time left on the time.After timer of the call
    call,                   \* record of the call in progress / last returned
    calls,                  \* number of completed Next calls
    trues,                  \* true results before the first false result
    stopped,                \* some Next call has returned false
    calcs,                  \* number of calc() calls made so far
    run,                    \* calc() results in a row not below their predecessor
    helper,                 \* the goroutine Next starts with its timeout context
    th,                     \* goroutines calling Next on the one driver at once
    heap,                   \* calculator values by address; 0 is the caller's own
    twin,                   \* two drivers built from the one configuration value
    opt,                    \* a package-level Options value and the loops over it
    loop                    \* whether the caller is still in its loop over Next

\* the driver and what is recorded of its calls
driver == <<cfg, defaultTimeoutDuration, calculator, ctx, maxAttempts, attempts,
            signal, pc, after, call, calls, trues, stopped, calcs, run>>

\* what the sequential driver leaves alone
aux == <<th, heap, twin, opt, loop>>

vars == <<cfg, defaultTimeoutDuration, calculator, ctx, maxAttempts, attempts,
          signal, pc, after, call, calls, trues, stopped, calcs, run, helper,
          th, heap, twin, opt, loop>>

-----------------------------------------------------------------------------
(* Durations (package time), in milliseconds.                              *)
Millisecond == 1
Second == 1000
Minute == 60000
Hour == 60 * Minute

(* Bounds of the model.                                                    *)
MaxN == 3          \* largest MaxAttempts configured
MaxCalls == 6      \* counters are exact below MaxCalls and stay there
RandDenom == 2     \* rand.Float64() is drawn from {k / RandDenom}
MaxWaits == 8      \* waits that fit before the governing deadline

Min(a, b) == IF a <= b THEN a ELSE b
Max(a, b) == IF a >= b THEN a ELSE b

(* counter++ on a counter that is exact below MaxCalls.  Next compares     *)
(* attempts only with 0 and with maxAttempts < MaxCalls, so every value    *)
(* from MaxCalls on behaves alike.                                         *)
Inc(n) == IF n < MaxCalls THEN n + 1 ELSE n

RECURSIVE Pow2(_)
Pow2(n) == IF n <= 0 THEN 1 ELSE 2 * Pow2(n - 1)

(* float64 values are kept as numerators over RandDenom.                   *)
TruncDiv(n, d) == IF n >= 0 THEN n \div d ELSE -((-n) \div d)

\* time.Duration(f): conversion of a float64 truncates toward zero
Duration(f) == TruncDiv(f, RandDenom)

\* float64(d) of an integral duration
Float(d) == d * RandDenom

\* math.Min on float64
MinFloat(a, b) == IF a <= b THEN a ELSE b

(* math.Pow(2, x) is +Inf from x = 1024 on.  temp is then +Inf, so         *)
(* randomBetween(temp/2, temp) = r*(Inf - Inf) + Inf is NaN, math.Min of   *)
(* anything and NaN is NaN, and time.Duration(NaN) is left to the          *)
(* implementation: the most negative Duration on amd64, 0 on arm64.        *)
FloatMaxExp == 1024

\* math.MinInt64 nanoseconds, kept within the integers of the checker
MinDuration == -2147483647

NaNDurations == {MinDuration, 0}

\* rand.Float64()*(max-min) + min with rand.Float64() = k / RandDenom
randomBetween(k, min, max) == k * (max - min) + Float(min)

-----------------------------------------------------------------------------
(* Configurations: the algorithm values a caller hands to New.             *)
Algorithms == {"Constant", "Jitter", "ExponentialBackoff"}
Intervals == {-Millisecond, 0, 4 * Millisecond}
\* <<Base, Max>> of Jitter and ExponentialBackoff; 0 is a field left unset
BaseMax == {<<0, 0>>, <<0, 5 * Millisecond>>, <<2 * Millisecond, 5 * Millisecond>>}
MaxAttemptsValues == {-1, 0} \cup (1..MaxN)
ExplicitTimeouts == {0, 10 * Millisecond}
DefaultTimeouts == {3 * Millisecond, 10 * Millisecond, Minute}

Config(alg, context, timeout, interval, base, max, n) ==
    [alg |-> alg, Context |-> context, Timeout |-> timeout,
     Interval |-> interval, Base |-> base, Max |-> max, MaxAttempts |-> n]

Configs ==
    LET Signals == {<<"nil", 0>>} \cup {<<"Context", t>> : t \in ExplicitTimeouts}
    IN  {Config("Constant", s[1], s[2], i, 0, 0, n) :
            s \in Signals, i \in Intervals, n \in MaxAttemptsValues}
        \cup
        {Config(a, s[1], s[2], 0, bm[1], bm[2], n) :
            a \in {"Jitter", "ExponentialBackoff"}, s \in Signals,
            bm \in BaseMax, n \in MaxAttemptsValues}

-----------------------------------------------------------------------------
(* Contexts.  signal is the one context object a driver can observe: the   *)
(* caller's context, or the timeout context Next creates for itself.       *)
NoSignal ==
    [timeout |-> 0, timer |-> "off", remaining |-> 0, done |-> FALSE,
     cancelled |-> FALSE]

\* context.WithTimeout(parent, d) on a parent that never fires
WithTimeout(d) ==
    [timeout |-> d, timer |-> IF d > 0 THEN "on" ELSE "off",
     remaining |-> Max(d, 0), done |-> d <= 0, cancelled |-> FALSE]

\* the Done case of the select can always proceed
DoneAlways(c, sig) == c \in {"Context", "WithTimeout"}

\* the Done case of the select can never proceed
DoneNever(c, sig) == FALSE

\* <-c.Done() can proceed; context.Background() is never done
Done(c, sig) == c \in {"Context", "WithTimeout"} /\ sig.done

-----------------------------------------------------------------------------
(* The algorithms' constructors.                                           *)
Calculator(alg, interval, base, max) ==
    [alg |-> alg, Interval |-> interval, Base |-> base, Max |-> max,
     interval |-> 0, attempt |-> 0]

\* an unset Interval left at 0
ConstantNewNoDefault(c) ==
    [calculator |-> Calculator("Constant", c.Interval, 0, 0),
     ctx |-> c.Context, maxAttempts |-> c.MaxAttempts, attempts |-> 0]

ConstantNew(c) ==
    [calculator |-> Calculator("Constant",
                               IF c.Interval = 0 THEN Second ELSE c.Interval, 0, 0),
     ctx |-> c.Context, maxAttempts |-> c.MaxAttempts, attempts |-> 0]

JitterNew(c) ==
    [calculator |-> Calculator("Jitter", 0,
                               IF c.Base = 0 THEN Second ELSE c.Base,
                               IF c.Max = 0 THEN Minute ELSE c.Max),
     ctx |-> c.Context, maxAttempts |-> c.MaxAttempts, attempts |-> 0]

\* an unset Base defaulting to a few milliseconds
ExponentialBackoffNewShortBase(c) ==
    [calculator |-> Calculator("ExponentialBackoff", 0,
                               IF c.Base = 0 THEN 4 * Millisecond ELSE c.Base,
                               IF c.Max = 0 THEN 15 * Second ELSE c.Max),
     ctx |-> c.Context, maxAttempts |-> c.MaxAttempts, attempts |-> 0]

ExponentialBackoffNew(c) ==
    [calculator |-> Calculator("ExponentialBackoff", 0,
                               IF c.Base = 0 THEN Second ELSE c.Base,
                               IF c.Max = 0 THEN 15 * Second ELSE c.Max),
     ctx |-> c.Context, maxAttempts |-> c.MaxAttempts, attempts |-> 0]

New(c) ==
    CASE c.alg = "Constant" -> ConstantNew(c)
      [] c.alg = "Jitter" -> JitterNew(c)
      [] c.alg = "ExponentialBackoff" -> ExponentialBackoffNew(c)

-----------------------------------------------------------------------------
(* The calculators.  Each yields <<duration, calculator after the call>>.  *)
ConstantCalc(calc) == <<calc.Interval, calc>>

\* the random value drawn from [0, interval * 3) instead of [Base, interval * 3)
JitterCalcFromZero(calc, k) ==
    LET interval == IF calc.interval = 0 THEN calc.Base ELSE calc.interval
        d == Duration(MinFloat(Float(calc.Max), randomBetween(k, 0, interval * 3)))
    IN  <<d, [calc EXCEPT !.interval = d]>>

\* the result not capped at Max
JitterCalcNoCap(calc, k) ==
    LET interval == IF calc.interval = 0 THEN calc.Base ELSE calc.interval
        d == Duration(randomBetween(k, calc.Base, interval * 3))
    IN  <<d, [calc EXCEPT !.interval = d]>>

\* the result returned without j.interval = d
JitterCalcNoStore(calc, k) ==
    LET interval == IF calc.interval = 0 THEN calc.Base ELSE calc.interval
        d == Duration(MinFloat(Float(calc.Max),
                               randomBetween(k, calc.Base, interval * 3)))
    IN  <<d, calc>>

JitterCalc(calc, k) ==
    LET interval == IF calc.interval = 0 THEN calc.Base ELSE calc.interval
        d == Duration(MinFloat(Float(calc.Max),
                               randomBetween(k, calc.Base, interval * 3)))
    IN  <<d, [calc EXCEPT !.interval = d]>>

\* calc() without the b.attempt++
IncAttemptNone(n, far) == n

(* b.attempt++.  The counter is exact below MaxCalls; the value MaxCalls   *)
(* stands for every count from MaxCalls to FloatMaxExp - 1, and from there *)
(* the next count is either still in that range or (far) FloatMaxExp; the  *)
(* value FloatMaxExp stands for every count from FloatMaxExp on.           *)
IncAttempt(n, far) ==
    IF n < MaxCalls THEN n + 1
    ELSE IF n = MaxCalls /\ ~far THEN n
    ELSE FloatMaxExp

(* k is the random draw, far whether a saturated counter has come to       *)
(* FloatMaxExp, nan what time.Duration(NaN) yields on the build.           *)
ExponentialBackoffCalc(calc, k, far, nan) ==
    LET attempt == IncAttempt(calc.attempt, far)
        temp == calc.Base * Pow2(attempt)
        \* temp is even, so temp / 2 is exact
        d == IF attempt >= FloatMaxExp
             THEN nan
             ELSE Duration(MinFloat(Float(calc.Max),
                                    randomBetween(k, temp \div 2, temp)))
    IN  <<d, [calc EXCEPT !.attempt = attempt]>>

Calc(calc, k, far, nan) ==
    CASE calc.alg = "Constant" -> ConstantCalc(calc)
      [] calc.alg = "Jitter" -> JitterCalc(calc, k)
      [] calc.alg = "ExponentialBackoff" -> ExponentialBackoffCalc(calc, k, far, nan)

-----------------------------------------------------------------------------
(* The driver.                                                             *)

\* The smallest wait the calculator of configuration c can return.
MinWait(c) ==
    LET calc == New(c).calculator
    IN  IF c.alg = "Constant" THEN calc.Interval ELSE Min(calc.Base, calc.Max)

\* The deadline that governs the loop of configuration c, 0 if there is none.
GoverningDeadline(c, dflt) ==
    IF c.Context # "nil" THEN c.Timeout
    ELSE IF c.MaxAttempts = 0 THEN dflt ELSE 0

\* The model follows a loop through at most MaxWaits positive waits.
WithinHorizon(c, dflt) ==
    MinWait(c) <= 0 \/ GoverningDeadline(c, dflt) <= MaxWaits * MinWait(c)

(* The record kept of a call: the path it took, whether the context was   *)
(* done when it reached its decision, how often it called calc() and with  *)
(* what result d, how long it was blocked in the select, and, when it      *)
(* returned, whether the context was done, the time left on its timer and  *)
(* the result.                                                             *)
NoCall == [branch |-> "none", doneAtEntry |-> FALSE, calcs |-> 0, d |-> 0,
           waited |-> 0, done |-> FALSE, left |-> 0, result |-> FALSE]

(* The goroutine of lines 37-40: it waits for the timeout context to be    *)
(* done and then calls its cancel function.                                *)
NoHelper == [state |-> "none", cancels |-> 0]

\* go func() { <-ctx.Done(); cancel() }() with the context Next creates
LazyHelper(c, max, h) ==
    IF c = "nil" /\ max = 0 THEN [state |-> "waiting", cancels |-> 0] ELSE h

(* What lies outside the sequential driver, before any of it is used.       *)
Threads == {1, 2}

NoThreads ==
    [pc |-> [t \in Threads |-> "idle"], seen |-> [t \in Threads |-> 0],
     result |-> [t \in Threads |-> FALSE], overlapped |-> FALSE]

Addresses == 0..2

NoHeap == [a \in Addresses |-> Calculator("free", 0, 0, 0)]

NoTwin ==
    [i \in Threads |->
        [ref |-> 0, built |-> FALSE, ctx |-> "nil", maxAttempts |-> 0,
         attempts |-> 0, results |-> <<>>]]

NoOptions == [name |-> "none"]

AuxInit ==
    /\ th = NoThreads
    /\ heap = NoHeap
    /\ twin = NoTwin
    /\ opt = NoOptions
    /\ loop = "running"

Init ==
    /\ AuxInit
    /\ helper = NoHelper
    /\ cfg \in Configs
    /\ defaultTimeoutDuration \in DefaultTimeouts
    /\ WithinHorizon(cfg, defaultTimeoutDuration)
    /\ calculator = New(cfg).calculator
    /\ ctx = New(cfg).ctx
    /\ maxAttempts = New(cfg).maxAttempts
    /\ attempts = New(cfg).attempts
    /\ signal = IF cfg.Context = "nil" THEN NoSignal ELSE WithTimeout(cfg.Timeout)
    /\ pc = "idle"
    /\ after = 0
    /\ call = NoCall
    /\ calls = 0
    /\ trues = 0
    /\ stopped = FALSE
    /\ calcs = 0
    /\ run = 0

\* the earlier revision: a timeout whether or not max attempts is set
LazyCtxAlwaysTimeout(c, max) == IF c = "nil" THEN "WithTimeout" ELSE c

\* no timeout is ever installed
LazyCtxNeverTimeout(c, max) == IF c = "nil" THEN "Background" ELSE c

\* Next, lines 29-45: the context the retrier holds after the nil check
LazyCtx(c, max) ==
    IF c = "nil"
    THEN IF max = 0 THEN "WithTimeout" ELSE "Background"
    ELSE c

\* a timeout context is created by every call, not only by the first
LazySignalEveryCall(c, max, sig, dflt) ==
    IF c \in {"nil", "WithTimeout"} /\ max = 0 THEN WithTimeout(dflt) ELSE sig

\* the context object after the nil check
LazySignal(c, max, sig, dflt) ==
    IF c = "nil" /\ LazyCtx(c, max) = "WithTimeout" THEN WithTimeout(dflt) ELSE sig

\* the attempts bound tested before the first-call test
BranchExhaustedFirst(att, max) ==
    IF att = max THEN "exhausted"
    ELSE IF att = 0 THEN "first"
    ELSE "select"

\* the attempts bound off by one
BranchOffByOne(att, max) ==
    IF att = 0 THEN "first"
    ELSE IF att = max + 1 THEN "exhausted"
    ELSE "select"

\* the attempts bound never tested
BranchNoBound(att, max) == IF att = 0 THEN "first" ELSE "select"

\* Next, lines 46-51: the path a call takes
Branch(att, max) ==
    IF att = 0 THEN "first"
    ELSE IF att = max THEN "exhausted"
    ELSE "select"

\* r.attempts++ on the paths that return true only
ReturnCountsTrueOnly(result, record) ==
    /\ attempts' = IF result THEN Inc(attempts) ELSE attempts
    /\ calls' = Inc(calls)
    /\ trues' = IF result /\ ~stopped THEN Inc(trues) ELSE trues
    /\ stopped' = (stopped \/ ~result)
    /\ call' = [record EXCEPT !.result = result]
    /\ pc' = "idle"
    /\ after' = 0

\* the deferred r.attempts++ and the bookkeeping of a returning call
Return(result, record) ==
    /\ attempts' = Inc(attempts)
    /\ calls' = Inc(calls)
    /\ trues' = IF result /\ ~stopped THEN Inc(trues) ELSE trues
    /\ stopped' = (stopped \/ ~result)
    /\ call' = [record EXCEPT !.result = result]
    /\ pc' = "idle"
    /\ after' = 0

\* Next up to the select statement
NextCall ==
    /\ pc = "idle"
    /\ ctx' = LazyCtx(ctx, maxAttempts)
    /\ signal' = LazySignal(ctx, maxAttempts, signal, defaultTimeoutDuration)
    /\ helper' = LazyHelper(ctx, maxAttempts, helper)
    /\ LET entry == [NoCall EXCEPT !.doneAtEntry = signal'.done,
                                   !.done = signal'.done]
           branch == Branch(attempts, maxAttempts)
       IN  IF branch = "first"
           THEN /\ Return(TRUE, [entry EXCEPT !.branch = "first"])
                /\ UNCHANGED <<calculator, calcs>>
           ELSE IF branch = "exhausted"
           THEN /\ Return(FALSE, [entry EXCEPT !.branch = "exhausted"])
                /\ UNCHANGED <<calculator, calcs>>
           ELSE \E k \in 0..(RandDenom - 1), far \in BOOLEAN, nan \in NaNDurations :
                LET c == Calc(calculator, k, far, nan)
                IN  /\ calculator' = c[2]
                    /\ after' = c[1]
                    /\ calcs' = Inc(calcs)
                    /\ call' = [entry EXCEPT !.branch = "select", !.calcs = 1,
                                             !.d = c[1]]
                    /\ pc' = "select"
                    /\ UNCHANGED <<attempts, calls, trues, stopped>>
    /\ UNCHANGED <<cfg, defaultTimeoutDuration, maxAttempts, run>>
    /\ UNCHANGED aux

\* the Done case returning true
NextCtxDoneTrue ==
    /\ pc = "select"
    /\ Done(ctx, signal)
    /\ Return(TRUE, [call EXCEPT !.branch = "done", !.done = TRUE, !.left = after])
    /\ UNCHANGED <<cfg, defaultTimeoutDuration, calculator, ctx, maxAttempts,
                   signal, calcs, run, helper>>
    /\ UNCHANGED aux

\* case <-r.ctx.Done(): return false
NextCtxDone ==
    /\ pc = "select"
    /\ Done(ctx, signal)
    /\ Return(FALSE, [call EXCEPT !.branch = "done", !.done = TRUE, !.left = after])
    /\ UNCHANGED <<cfg, defaultTimeoutDuration, calculator, ctx, maxAttempts,
                   signal, calcs, run, helper>>
    /\ UNCHANGED aux

\* case <-time.After(...): return true
NextTimeAfter ==
    /\ pc = "select"
    /\ after <= 0
    /\ Return(TRUE, [call EXCEPT !.branch = "timer", !.done = signal.done,
                                 !.left = after])
    /\ UNCHANGED <<cfg, defaultTimeoutDuration, calculator, ctx, maxAttempts,
                   signal, calcs, run, helper>>
    /\ UNCHANGED aux

(* Time.  A select with a case that can proceed returns before time moves  *)
(* on; otherwise time advances to the next timer that expires.             *)
\* a timer of zero or negative duration taken as not yet elapsed
UrgentOnDoneOnly == pc = "select" /\ Done(ctx, signal)

Urgent == pc = "select" /\ (Done(ctx, signal) \/ after <= 0)

Pending ==
    (IF signal.timer = "on" THEN {signal.remaining} ELSE {})
    \cup (IF pc = "select" /\ after > 0 THEN {after} ELSE {})

Tick ==
    /\ ~Urgent
    /\ Pending # {}
    /\ LET d == CHOOSE x \in Pending : \A y \in Pending : x <= y
       IN  /\ signal' = IF signal.timer = "on"
                        THEN IF signal.remaining = d
                             THEN [signal EXCEPT !.timer = "off", !.remaining = 0,
                                                 !.done = TRUE]
                             ELSE [signal EXCEPT !.remaining = @ - d]
                        ELSE signal
           /\ after' = IF pc = "select" THEN after - d ELSE after
           /\ call' = IF pc = "select" THEN [call EXCEPT !.waited = @ + d] ELSE call
    /\ UNCHANGED <<cfg, defaultTimeoutDuration, calculator, ctx, maxAttempts,
                   attempts, pc, calls, trues, stopped, calcs, run, helper>>
    /\ UNCHANGED aux

\* the caller cancels the context it supplied
Cancel ==
    /\ cfg.Context # "nil"
    /\ ~signal.done
    /\ signal' = [signal EXCEPT !.timer = "off", !.remaining = 0, !.done = TRUE,
                                !.cancelled = TRUE]
    /\ UNCHANGED <<cfg, defaultTimeoutDuration, calculator, ctx, maxAttempts,
                   attempts, pc, after, call, calls, trues, stopped, calcs, run,
                   helper>>
    /\ UNCHANGED aux

\* defaultTimeoutDuration = d: the package variable is assigned a new value
Overwrite ==
    /\ \E d \in DefaultTimeouts \ {defaultTimeoutDuration} :
          /\ ctx # "nil" \/ WithinHorizon(cfg, d)
          /\ defaultTimeoutDuration' = d
    /\ UNCHANGED <<cfg, calculator, ctx, maxAttempts, attempts, signal, pc, after,
                   call, calls, trues, stopped, calcs, run, helper>>
    /\ UNCHANGED aux

Next == NextCall \/ NextCtxDone \/ NextTimeAfter \/ Tick \/ Cancel \/ Overwrite

Spec == Init /\ [][Next]_vars

(* Fairness.  The caller runs `for r.Next() {}`, so a call follows a call; *)
(* time does not stop; a timer that has expired is received; and select    *)
(* picks among the cases that can proceed uniformly at random, so a case   *)
(* that can proceed in call after call is picked in the end.               *)
LiveSpec ==
    /\ Spec
    /\ WF_vars(NextCall)
    /\ SF_vars(NextCtxDone)
    /\ SF_vars(NextTimeAfter)
    /\ SF_vars(Tick)

-----------------------------------------------------------------------------
(* The calculators on their own: calc() is called again and again on the   *)
(* calculator a constructor has set up, as TestJitter_calc and             *)
(* TestExponentialBackoff_calc do; call.d holds the previous result, Base  *)
(* (Interval for Constant) before the first call.                          *)
SampleSize == 10

\* <<Base, Max>> of the sampled Jitter and ExponentialBackoff calculators
SampleBaseMax ==
    BaseMax \cup {<<Millisecond, Millisecond>>, <<Millisecond, 20 * Millisecond>>}

SampleConfigs ==
    {Config("Constant", "nil", 0, i, 0, 0, 0) : i \in Intervals}
    \cup {Config(a, "nil", 0, 0, bm[1], bm[2], 0) :
            a \in {"Jitter", "ExponentialBackoff"}, bm \in SampleBaseMax}
    \cup {Config("Jitter", "nil", 0, 0, Millisecond, Hour, 0)}

CalcInit ==
    /\ AuxInit
    /\ helper = NoHelper
    /\ cfg \in SampleConfigs
    /\ defaultTimeoutDuration = Minute
    /\ calculator = New(cfg).calculator
    /\ ctx = New(cfg).ctx
    /\ maxAttempts = New(cfg).maxAttempts
    /\ attempts = New(cfg).attempts
    /\ signal = NoSignal
    /\ pc = "idle"
    /\ after = 0
    /\ call = [NoCall EXCEPT !.d = IF cfg.alg = "Constant"
                                   THEN calculator.Interval ELSE calculator.Base]
    /\ calls = 0
    /\ trues = 0
    /\ stopped = FALSE
    /\ calcs = 0
    /\ run = 0

\* d := calc()
CalcStep ==
    /\ \E k \in 0..(RandDenom - 1), far \in BOOLEAN, nan \in NaNDurations :
          LET c == Calc(calculator, k, far, nan)
          IN  /\ calculator' = c[2]
              /\ call' = [call EXCEPT !.calcs = 1, !.d = c[1]]
              /\ run' = IF c[1] < call.d THEN 0
                         ELSE IF run < SampleSize THEN run + 1 ELSE run
    /\ calcs' = Inc(calcs)
    /\ UNCHANGED <<cfg, defaultTimeoutDuration, ctx, maxAttempts, attempts, signal,
                   pc, after, calls, trues, stopped, helper>>
    /\ UNCHANGED aux

CalcSpec == CalcInit /\ [][CalcStep]_vars

-----------------------------------------------------------------------------
(* The drivers without a context, together with the goroutine Next starts  *)
(* and a caller that runs `for r.Next() { ... }` and may leave the loop by *)
(* break after any attempt.                                                *)
HelperInit == Init /\ cfg.Context = "nil"

\* the loop condition: r.Next()
LoopNext == loop = "running" /\ ~stopped /\ NextCall

\* break in the loop body, after Next returned true
LoopBreak ==
    /\ loop = "running" /\ pc = "idle" /\ calls >= 1 /\ ~stopped
    /\ loop' = "left"
    /\ UNCHANGED driver
    /\ UNCHANGED <<helper, th, heap, twin, opt>>

(* <-ctx.Done(); cancel(), lines 38-39.  The context has fired, which      *)
(* stopped and removed its timer; cancel() finds it so.                    *)
HelperRun ==
    /\ helper.state = "waiting"
    /\ Done(ctx, signal)
    /\ helper' = [state |-> "exited", cancels |-> helper.cancels + 1]
    /\ signal' = [signal EXCEPT !.timer = "off", !.remaining = 0]
    /\ UNCHANGED <<cfg, defaultTimeoutDuration, calculator, ctx, maxAttempts,
                   attempts, pc, after, call, calls, trues, stopped, calcs, run>>
    /\ UNCHANGED aux

HelperNext ==
    LoopNext \/ LoopBreak \/ NextCtxDone \/ NextTimeAfter \/ Tick \/ HelperRun

HelperSpec == HelperInit /\ [][HelperNext]_vars

(* Fairness.  Time does not stop, a case of the select that can proceed is *)
(* taken, and the goroutine is scheduled.  Nothing is asked of the caller. *)
HelperLiveSpec ==
    /\ HelperSpec
    /\ SF_vars(Tick)
    /\ WF_vars(NextCtxDone \/ NextTimeAfter)
    /\ WF_vars(HelperRun)

-----------------------------------------------------------------------------
(* Two goroutines calling Next on the one driver without synchronisation.  *)
(* The reads of r.attempts at lines 46 and 49 and the load and the store   *)
(* of the deferred r.attempts++ are steps of their own, so that the calls  *)
(* interleave as the unsynchronised accesses allow.  The drivers are those *)
(* without a context and with MaxAttempts set: their context is            *)
(* context.Background() and the select has the timer case only.  The race  *)
(* is on r.attempts, which no calculator reads, so Constant stands for the *)
(* three algorithms.                                                       *)
ConcInit ==
    /\ cfg \in {c \in Configs : /\ c.Context = "nil" /\ c.MaxAttempts >= 1
                                 /\ c.alg = "Constant"}
    /\ defaultTimeoutDuration = Minute
    /\ calculator = New(cfg).calculator
    /\ ctx = New(cfg).ctx
    /\ maxAttempts = New(cfg).maxAttempts
    /\ attempts = New(cfg).attempts
    /\ signal = NoSignal
    /\ pc = "idle"
    /\ after = 0
    /\ call = NoCall
    /\ calls = 0
    /\ trues = 0
    /\ stopped = FALSE
    /\ calcs = 0
    /\ run = 0
    /\ helper = NoHelper
    /\ AuxInit

\* goroutine t moves on to position p
Goto(t, p) == [th EXCEPT !.pc[t] = p]

\* lines 29-45: the call begins
ThreadEnter(t) ==
    /\ th.pc[t] = "idle"
    /\ ctx' = LazyCtx(ctx, maxAttempts)
    /\ signal' = LazySignal(ctx, maxAttempts, signal, defaultTimeoutDuration)
    /\ helper' = LazyHelper(ctx, maxAttempts, helper)
    /\ th' = [Goto(t, "first") EXCEPT
                 !.overlapped = @ \/ \E u \in Threads \ {t} : th.pc[u] # "idle"]
    /\ UNCHANGED <<cfg, defaultTimeoutDuration, calculator, maxAttempts, attempts,
                   pc, after, call, calls, trues, stopped, calcs, run>>
    /\ UNCHANGED <<heap, twin, opt, loop>>

\* line 46: if r.attempts == 0 { return true }
ThreadFirst(t) ==
    /\ th.pc[t] = "first"
    /\ th' = IF Branch(attempts, maxAttempts) = "first"
             THEN [Goto(t, "load") EXCEPT !.result[t] = TRUE]
             ELSE Goto(t, "bound")
    /\ UNCHANGED driver
    /\ UNCHANGED <<helper, heap, twin, opt, loop>>

\* lines 49-55: if r.attempts == r.maxAttempts { return false }; r.calc()
ThreadBound(t) ==
    /\ th.pc[t] = "bound"
    /\ IF Branch(attempts, maxAttempts) = "exhausted"
       THEN /\ th' = [Goto(t, "load") EXCEPT !.result[t] = FALSE]
            /\ UNCHANGED <<calculator, calcs>>
       ELSE \E k \in 0..(RandDenom - 1), far \in BOOLEAN, nan \in NaNDurations :
            /\ calculator' = Calc(calculator, k, far, nan)[2]
            /\ calcs' = Inc(calcs)
            /\ th' = Goto(t, "select")
    /\ UNCHANGED <<cfg, defaultTimeoutDuration, ctx, maxAttempts, attempts, signal,
                   pc, after, call, calls, trues, stopped, run>>
    /\ UNCHANGED <<helper, heap, twin, opt, loop>>

\* lines 52-57: the timer elapses, return true
ThreadTimeAfter(t) ==
    /\ th.pc[t] = "select"
    /\ th' = [Goto(t, "load") EXCEPT !.result[t] = TRUE]
    /\ UNCHANGED driver
    /\ UNCHANGED <<helper, heap, twin, opt, loop>>

\* lines 26-28: r.attempts++ loads r.attempts
ThreadLoad(t) ==
    /\ th.pc[t] = "load"
    /\ th' = [Goto(t, "store") EXCEPT !.seen[t] = attempts]
    /\ UNCHANGED driver
    /\ UNCHANGED <<helper, heap, twin, opt, loop>>

\* lines 26-28: r.attempts++ stores the sum, and the call returns
ThreadStore(t) ==
    /\ th.pc[t] = "store"
    /\ attempts' = Inc(th.seen[t])
    /\ calls' = Inc(calls)
    /\ trues' = IF th.result[t] /\ ~stopped THEN Inc(trues) ELSE trues
    /\ stopped' = (stopped \/ ~th.result[t])
    /\ th' = [Goto(t, "idle") EXCEPT !.seen[t] = 0, !.result[t] = FALSE]
    /\ UNCHANGED <<cfg, defaultTimeoutDuration, calculator, ctx, maxAttempts, signal,
                   pc, after, call, calcs, run>>
    /\ UNCHANGED <<helper, heap, twin, opt, loop>>

ConcNext ==
    \E t \in Threads :
        \/ ThreadEnter(t)
        \/ ThreadFirst(t)
        \/ ThreadBound(t)
        \/ ThreadTimeAfter(t)
        \/ ThreadLoad(t)
        \/ ThreadStore(t)

ConcSpec == ConcInit /\ [][ConcNext]_vars

-----------------------------------------------------------------------------
(* Two drivers built by New from the one configuration value.  heap holds  *)
(* the algorithm structs: address 0 is the caller's value, as the caller   *)
(* wrote it; new() has a value receiver, so it works on a copy of that     *)
(* value and the driver's calculator points at the copy.  The drivers are  *)
(* those without a context and with MaxAttempts set, so that every wait    *)
(* ends by its timer and a call of Next is one step.                       *)
Struct(c) == Calculator(c.alg, c.Interval, c.Base, c.Max)

TwinInit ==
    /\ cfg \in {c \in Configs : c.Context = "nil" /\ c.MaxAttempts >= 1}
    /\ defaultTimeoutDuration = Minute
    /\ calculator = New(cfg).calculator
    /\ ctx = New(cfg).ctx
    /\ maxAttempts = New(cfg).maxAttempts
    /\ attempts = New(cfg).attempts
    /\ signal = NoSignal
    /\ pc = "idle"
    /\ after = 0
    /\ call = NoCall
    /\ calls = 0
    /\ trues = 0
    /\ stopped = FALSE
    /\ calcs = 0
    /\ run = 0
    /\ helper = NoHelper
    /\ th = NoThreads
    /\ heap = [NoHeap EXCEPT ![0] = Struct(cfg)]
    /\ twin = NoTwin
    /\ opt = NoOptions
    /\ loop = "running"

\* calculator: j, with new() working on the caller's value itself
NewRefOfReceiver(h) == 0

\* calculator: &j, the address of the copy new() received
NewRef(h) == CHOOSE a \in Addresses :
                /\ h[a].alg = "free"
                /\ \A b \in Addresses : h[b].alg = "free" => a <= b

\* New(a), lines 65-67, with the value at address 0: a.new()
TwinNew(i) ==
    /\ ~twin[i].built
    /\ LET ref == NewRef(heap)
           value == heap[0]
           r == New([cfg EXCEPT !.Interval = value.Interval, !.Base = value.Base,
                                !.Max = value.Max])
       IN  /\ heap' = [heap EXCEPT ![ref] =
                          [r.calculator EXCEPT !.interval = value.interval,
                                               !.attempt = value.attempt]]
           /\ twin' = [twin EXCEPT ![i] =
                          [ref |-> ref, built |-> TRUE, ctx |-> r.ctx,
                           maxAttempts |-> r.maxAttempts, attempts |-> r.attempts,
                           results |-> <<>>]]
    /\ UNCHANGED driver
    /\ UNCHANGED <<helper, th, opt, loop>>

\* for r.Next() { }: one call of Next on driver i, lines 25-58
TwinNext(i) ==
    /\ twin[i].built
    /\ IF twin[i].results = <<>> THEN TRUE ELSE twin[i].results[Len(twin[i].results)]
    /\ LET r == twin[i]
           branch == Branch(r.attempts, r.maxAttempts)
           returns(result) ==
               twin' = [twin EXCEPT ![i].ctx = LazyCtx(r.ctx, r.maxAttempts),
                                    ![i].attempts = Inc(r.attempts),
                                    ![i].results = Append(r.results, result)]
       IN  IF branch = "select"
           THEN \E k \in 0..(RandDenom - 1), far \in BOOLEAN, nan \in NaNDurations :
                /\ heap' = [heap EXCEPT ![r.ref] = Calc(heap[r.ref], k, far, nan)[2]]
                /\ returns(TRUE)
           ELSE /\ heap' = heap
                /\ returns(branch = "first")
    /\ UNCHANGED driver
    /\ UNCHANGED <<helper, th, opt, loop>>

TwinStep == \E i \in Threads : TwinNew(i) \/ TwinNext(i)

TwinSpec == TwinInit /\ [][TwinStep]_vars

-----------------------------------------------------------------------------
(* The package-level values DefaultConstant and DefaultExponentialBackoff  *)
(* of the revision that has them (src/retry.go, lines 167-330).  They are  *)
(* values of type Options, and Next has a pointer receiver, so every loop  *)
(* `for DefaultConstant.Next() {}` works on the one package-level value.   *)
(* opt holds that value, the timer of its context, the position of the     *)
(* call in progress, and of the caller the number of loops started,        *)
(* whether one is running and the true results it has had (tries).         *)
MaxLoops == 2

(* float64(time.Second) * 2^34 nanoseconds exceeds math.MaxInt64, and what *)
(* time.Duration yields for such a value is left to the implementation:    *)
(* the most negative Duration, or the greatest, which the test against     *)
(* maxInterval then replaces.  The counter is exact below OverflowAt, a    *)
(* value that stands for every count from there on.                        *)
OverflowAt == 34

Options(name, factor, baseInterval, maxInterval) ==
    [name |-> name, ctx |-> "nil", timer |-> "off", remaining |-> 0,
     done |-> FALSE, factor |-> factor, baseInterval |-> baseInterval,
     maxInterval |-> maxInterval, maxAttempts |-> 0, attempts |-> 0,
     pc |-> "idle", after |-> 0, loops |-> 0, running |-> FALSE, tries |-> 0]

\* Constant(ConstantOptions{})
DefaultConstant == Options("DefaultConstant", 1, Second, Second)

\* ExponentialBackoff(ExponentialBackoffOptions{})
DefaultExponentialBackoff ==
    Options("DefaultExponentialBackoff", 2, Second, 64 * Second)

\* the timeouts of defaultContextWithTimeout: a minute, and the tests' 10ms
OptionsTimeouts == {10 * Millisecond, Minute}

OptionsInit ==
    /\ opt \in {DefaultConstant, DefaultExponentialBackoff}
    /\ defaultTimeoutDuration \in OptionsTimeouts
    /\ cfg = Config("Constant", "nil", 0, 0, 0, 0, 0)
    /\ calculator = New(cfg).calculator
    /\ ctx = New(cfg).ctx
    /\ maxAttempts = New(cfg).maxAttempts
    /\ attempts = New(cfg).attempts
    /\ signal = NoSignal
    /\ pc = "idle"
    /\ after = 0
    /\ call = NoCall
    /\ calls = 0
    /\ trues = 0
    /\ stopped = FALSE
    /\ calcs = 0
    /\ run = 0
    /\ helper = NoHelper
    /\ th = NoThreads
    /\ heap = NoHeap
    /\ twin = NoTwin
    /\ loop = "running"

\* o.attempts++
OptionsInc(n) == IF n < OverflowAt THEN n + 1 ELSE n

\* x doubled n times, as far as it stays below cap
RECURSIVE Doubled(_, _, _)
Doubled(x, n, cap) == IF n = 0 \/ x >= cap THEN x ELSE Doubled(2 * x, n - 1, cap)

(* waitDuration, lines 206-211; k is the random draw and out what the      *)
(* conversion of a value beyond the range of time.Duration yields.         *)
OptionsWait(o, k, out) ==
    LET interval == Doubled(o.baseInterval, o.attempts, o.factor * o.maxInterval)
        factoredInterval == interval \div o.factor
        waitDuration == Duration(randomBetween(k, factoredInterval, interval))
    IN  IF o.attempts >= OverflowAt THEN out
        ELSE IF o.maxInterval < factoredInterval THEN o.maxInterval
        ELSE Min(o.maxInterval, waitDuration)

\* the caller comes to a loop `for DefaultConstant.Next() {}`
OptionsLoop ==
    /\ ~opt.running /\ opt.pc = "idle"
    /\ opt.loops < MaxLoops
    /\ opt' = [opt EXCEPT !.running = TRUE, !.loops = @ + 1, !.tries = 0]
    /\ UNCHANGED driver
    /\ UNCHANGED <<helper, th, heap, twin, loop>>

\* Options.Next, lines 188-211: up to the select
OptionsNext ==
    /\ opt.running /\ opt.pc = "idle"
    /\ LET o == IF opt.ctx = "nil"
                THEN [opt EXCEPT !.ctx = "WithTimeout", !.timer = "on",
                                 !.remaining = defaultTimeoutDuration]
                ELSE opt
       IN  IF o.attempts = 0
           THEN opt' = [o EXCEPT !.attempts = OptionsInc(@), !.tries = Inc(@)]
           ELSE IF o.attempts = o.maxAttempts
           THEN opt' = [o EXCEPT !.attempts = OptionsInc(@), !.running = FALSE]
           ELSE \E k \in 0..(RandDenom - 1), out \in {o.maxInterval, MinDuration} :
                opt' = [o EXCEPT !.pc = "select", !.after = OptionsWait(o, k, out)]
    /\ UNCHANGED driver
    /\ UNCHANGED <<helper, th, heap, twin, loop>>

\* case <-o.ctx.Done(): return false
OptionsCtxDone ==
    /\ opt.pc = "select" /\ opt.done
    /\ opt' = [opt EXCEPT !.pc = "idle", !.after = 0, !.attempts = OptionsInc(@),
                          !.running = FALSE]
    /\ UNCHANGED driver
    /\ UNCHANGED <<helper, th, heap, twin, loop>>

\* case <-time.After(waitDuration): return true
OptionsTimeAfter ==
    /\ opt.pc = "select" /\ opt.after <= 0
    /\ opt' = [opt EXCEPT !.pc = "idle", !.after = 0, !.attempts = OptionsInc(@),
                          !.tries = Inc(@)]
    /\ UNCHANGED driver
    /\ UNCHANGED <<helper, th, heap, twin, loop>>

OptionsPending ==
    (IF opt.timer = "on" THEN {opt.remaining} ELSE {})
    \cup (IF opt.pc = "select" /\ opt.after > 0 THEN {opt.after} ELSE {})

\* time advances to the next timer that expires
OptionsTick ==
    /\ ~(opt.pc = "select" /\ (opt.done \/ opt.after <= 0))
    /\ OptionsPending # {}
    /\ LET d == CHOOSE x \in OptionsPending : \A y \in OptionsPending : x <= y
       IN  opt' = [opt EXCEPT
                     !.remaining = IF opt.timer = "on" THEN @ - d ELSE @,
                     !.timer = IF opt.timer = "on" /\ opt.remaining = d
                               THEN "off" ELSE @,
                     !.done = @ \/ (opt.timer = "on" /\ opt.remaining = d),
                     !.after = IF opt.pc = "select" THEN @ - d ELSE @]
    /\ UNCHANGED driver
    /\ UNCHANGED <<helper, th, heap, twin, loop>>

OptionsStep ==
    OptionsLoop \/ OptionsNext \/ OptionsCtxDone \/ OptionsTimeAfter \/ OptionsTick

OptionsSpec == OptionsInit /\ [][OptionsStep]_vars

-----------------------------------------------------------------------------
(* The factor-based revision of the driver (src/retry.go, lines 1-165):    *)
(* the retrier holds factor, baseInterval and maxInterval, and Next itself *)
(* computes the wait from r.attempts.  opt holds that retrier, the context *)
(* it observes (sig) and the record of its last call: the value k of       *)
(* r.attempts the call found, whether it reached the select (waited), the  *)
(* wait d it computed and its result.  A call of Next is one step here:    *)
(* the outcome of the select follows from the wait and the time left on    *)
(* the context's timer.                                                    *)

\* the greatest n with 2^n <= x
RECURSIVE Log2(_)
Log2(x) == IF x < 2 THEN 0 ELSE 1 + Log2(x \div 2)

(* The least count n for which float64(base) * 2^n nanoseconds is beyond   *)
(* math.MaxInt64 = 2^63 - 1, for base > 0 in milliseconds: a millisecond   *)
(* is 10^6 = 2^6 * 15625 nanoseconds.                                      *)
OverflowExp(base) == 57 - Log2(base * 15625)

\* Constant.new, lines 86-113
FactorConstantNew(c) ==
    [ctx |-> c.Context, factor |-> 1,
     baseInterval |-> IF c.Interval # 0 THEN c.Interval ELSE Second,
     maxInterval |-> IF c.Interval # 0 THEN c.Interval ELSE Second,
     maxAttempts |-> c.MaxAttempts, attempts |-> 0]

\* ExponentialBackoff.new, lines 136-165
FactorExponentialBackoffNew(c) ==
    [ctx |-> c.Context, factor |-> 2,
     baseInterval |-> IF c.Base # 0 THEN c.Base ELSE Second,
     maxInterval |-> IF c.Max # 0 THEN c.Max ELSE 64 * Second,
     maxAttempts |-> c.MaxAttempts, attempts |-> 0]

\* New(s), lines 62-64, with the fields the record of the last call adds
FactorNew(c, sig) ==
    LET r == IF c.alg = "Constant" THEN FactorConstantNew(c)
                                   ELSE FactorExponentialBackoffNew(c)
    IN  [name |-> "retrier", ctx |-> r.ctx, factor |-> r.factor,
         baseInterval |-> r.baseInterval, maxInterval |-> r.maxInterval,
         maxAttempts |-> r.maxAttempts, attempts |-> r.attempts,
         sig |-> sig, calls |-> 0, k |-> 0, waited |-> FALSE, d |-> 0,
         result |-> TRUE]

(* r.attempts++.  The counter is exact up to OverflowExp + 1, a value that *)
(* stands for every count from there on.                                   *)
FactorInc(r) ==
    IF r.attempts <= OverflowExp(r.baseInterval) THEN r.attempts + 1 ELSE r.attempts

\* the comparison with maxInterval made before the conversion, in float64
FactorWaitCapFirst(r, k, out) ==
    LET interval == Doubled(r.baseInterval, r.attempts, r.factor * r.maxInterval)
        factoredInterval == interval \div r.factor
        waitDuration == Duration(randomBetween(k, factoredInterval, interval))
    IN  IF r.attempts >= OverflowExp(r.baseInterval) THEN r.maxInterval
        ELSE IF r.maxInterval < factoredInterval THEN r.maxInterval
        ELSE Min(r.maxInterval, waitDuration)

(* waitDuration, lines 43-48.  k is the random draw.  From OverflowExp on, *)
(* interval is beyond the range of time.Duration and so is, for some draw, *)
(* the value converted; out is what the conversion then yields: left to    *)
(* the implementation, the most negative Duration or the greatest, which   *)
(* line 46 replaces by maxInterval, as it does a value within the range.   *)
FactorWait(r, k, out) ==
    LET interval == Doubled(r.baseInterval, r.attempts, r.factor * r.maxInterval)
        factoredInterval == interval \div r.factor
        waitDuration == Duration(randomBetween(k, factoredInterval, interval))
    IN  IF r.attempts >= OverflowExp(r.baseInterval) THEN out
        ELSE IF r.maxInterval < factoredInterval THEN r.maxInterval
        ELSE Min(r.maxInterval, waitDuration)

(* select between <-ctx.Done() and <-time.After(d) on context sig:         *)
(* <<result, sig after the call>>.  pick is the choice select makes when   *)
(* both cases can proceed.                                                 *)
Select(sig, d, pick) ==
    IF sig.done THEN <<IF d <= 0 THEN pick ELSE FALSE, sig>>
    ELSE IF d <= 0 \/ sig.timer = "off" THEN <<TRUE, sig>>
    ELSE IF d < sig.remaining THEN <<TRUE, [sig EXCEPT !.remaining = @ - d]>>
    ELSE <<IF d = sig.remaining THEN pick ELSE FALSE,
           [sig EXCEPT !.timer = "off", !.remaining = 0, !.done = TRUE]>>

\* Next, lines 22-55: the retrier after the call
FactorNext(r, dflt, k, out, pick) ==
    LET sig == IF r.ctx = "nil" THEN WithTimeout(dflt) ELSE r.sig
        entered == [r EXCEPT !.ctx = IF r.ctx = "nil" THEN "WithTimeout" ELSE @,
                             !.sig = sig, !.attempts = FactorInc(r),
                             !.calls = Inc(@), !.k = r.attempts]
        d == FactorWait(r, k, out)
        s == Select(sig, d, pick)
    IN  IF r.attempts = 0
        THEN [entered EXCEPT !.waited = FALSE, !.d = 0, !.result = TRUE]
        ELSE IF r.attempts = r.maxAttempts
        THEN [entered EXCEPT !.waited = FALSE, !.d = 0, !.result = FALSE]
        ELSE [entered EXCEPT !.waited = TRUE, !.d = d, !.result = s[1],
                             !.sig = s[2]]

\* <<Base, Max>> or <<Interval, Interval>>, in milliseconds; 0 is left unset
FactorBaseMax ==
    {<<0, 0>>, <<Millisecond, 20 * Millisecond>>,
     <<2 * Millisecond, 5 * Millisecond>>, <<4 * Millisecond, 4 * Millisecond>>}

(* The contexts: none, one with a deadline, one that can be cancelled and  *)
(* never is.                                                               *)
FactorSignals ==
    {<<"nil", NoSignal>>, <<"Context", NoSignal>>}
    \cup {<<"Context", WithTimeout(t)>> : t \in ExplicitTimeouts}

FactorConfigs ==
    {Config("Constant", s[1], s[2].timeout, bm[1], 0, 0, n) :
        s \in FactorSignals, n \in 0..MaxN,
        bm \in {b \in FactorBaseMax : b[1] = b[2]}}
    \cup
    {Config("ExponentialBackoff", s[1], s[2].timeout, 0, bm[1], bm[2], n) :
        s \in FactorSignals, n \in 0..MaxN, bm \in FactorBaseMax}

FactorInit ==
    /\ \E s \in FactorSignals :
          /\ cfg \in {c \in FactorConfigs :
                          c.Context = s[1] /\ c.Timeout = s[2].timeout}
          /\ opt = FactorNew(cfg, s[2])
    \* the loop is followed through at most 60 waits of baseInterval
    /\ defaultTimeoutDuration \in
          {t \in OptionsTimeouts : t <= 60 * opt.baseInterval}
    /\ calculator = New(cfg).calculator
    /\ ctx = New(cfg).ctx
    /\ maxAttempts = New(cfg).maxAttempts
    /\ attempts = New(cfg).attempts
    /\ signal = NoSignal
    /\ pc = "idle"
    /\ after = 0
    /\ call = NoCall
    /\ calls = 0
    /\ trues = 0
    /\ stopped = FALSE
    /\ calcs = 0
    /\ run = 0
    /\ helper = NoHelper
    /\ th = NoThreads
    /\ heap = NoHeap
    /\ twin = NoTwin
    /\ loop = "running"

\* for r.Next() { }: one call of Next
FactorStep ==
    /\ opt.result
    /\ \E k \in 0..(RandDenom - 1), out \in {opt.maxInterval, MinDuration},
          pick \in BOOLEAN :
          opt' = FactorNext(opt, defaultTimeoutDuration, k, out, pick)
    /\ UNCHANGED driver
    /\ UNCHANGED <<helper, th, heap, twin, loop>>

FactorSpec == FactorInit /\ [][FactorStep]_vars

-----------------------------------------------------------------------------
(* The calculator-based driver (part_004) and the factor-based driver      *)
(* (src/retry.go, lines 1-165) side by side: both are built from the one   *)
(* ExponentialBackoff value with Base and Max set and a context of the     *)
(* caller, and a step is the same call of Next on each, with the same      *)
(* random draw and the same choice of select.  Each driver has its own     *)
(* copy of the context's timer, since each runs in its own time.           *)
PairConfigs ==
    {c \in FactorConfigs :
        /\ c.alg = "ExponentialBackoff" /\ c.Context # "nil"
        /\ c.Base # 0 /\ c.Max # 0}

PairInit ==
    /\ \E s \in FactorSignals :
          /\ cfg \in {c \in PairConfigs :
                          c.Context = s[1] /\ c.Timeout = s[2].timeout}
          /\ opt = FactorNew(cfg, s[2])
          /\ signal = s[2]
    /\ defaultTimeoutDuration = Minute
    /\ calculator = New(cfg).calculator
    /\ ctx = New(cfg).ctx
    /\ maxAttempts = New(cfg).maxAttempts
    /\ attempts = New(cfg).attempts
    /\ pc = "idle"
    /\ after = 0
    /\ call = NoCall
    /\ calls = 0
    /\ trues = 0
    /\ stopped = FALSE
    /\ calcs = 0
    /\ run = 0
    /\ helper = NoHelper
    /\ th = NoThreads
    /\ heap = NoHeap
    /\ twin = NoTwin
    /\ loop = "running"

(* One call of Next on each driver, while both loops run.  The count the   *)
(* calculator keeps can be beyond FloatMaxExp (far) only when the count of *)
(* the factor-based driver is beyond its last exact value.                 *)
PairNext ==
    /\ ~stopped /\ opt.result
    /\ \E k \in 0..(RandDenom - 1), pick \in BOOLEAN,
          out \in {opt.maxInterval, MinDuration}, nan \in NaNDurations,
          far \in {FALSE, opt.attempts > OverflowExp(opt.baseInterval)} :
          /\ opt' = FactorNext(opt, defaultTimeoutDuration, k, out, pick)
          /\ ctx' = LazyCtx(ctx, maxAttempts)
          /\ helper' = LazyHelper(ctx, maxAttempts, helper)
          /\ LET branch == Branch(attempts, maxAttempts)
                 sig == LazySignal(ctx, maxAttempts, signal, defaultTimeoutDuration)
                 c == Calc(calculator, k, far, nan)
                 s == Select(sig, c[1], pick)
             IN  IF branch = "select"
                 THEN /\ calculator' = c[2]
                      /\ calcs' = Inc(calcs)
                      /\ signal' = s[2]
                      /\ Return(s[1], [NoCall EXCEPT
                                          !.branch = IF s[1] THEN "timer" ELSE "done",
                                          !.calcs = 1, !.d = c[1],
                                          !.done = s[2].done])
                 ELSE /\ signal' = sig
                      /\ Return(branch = "first", [NoCall EXCEPT !.branch = branch])
                      /\ UNCHANGED <<calculator, calcs>>
    /\ UNCHANGED <<cfg, defaultTimeoutDuration, maxAttempts, run>>
    /\ UNCHANGED <<th, heap, twin, loop>>

PairSpec == PairInit /\ [][PairNext]_vars

TypeOK ==
    /\ cfg \in Configs \cup SampleConfigs \cup FactorConfigs
    /\ pc \in {"idle", "select"}
    /\ run \in 0..SampleSize
    /\ attempts \in 0..MaxCalls
    /\ calls \in 0..MaxCalls
    /\ ctx \in {"nil", "Background", "WithTimeout", "Context"}

-----------------------------------------------------------------------------
(* Properties.                                                             *)

\* the last call has returned
Returned == pc = "idle" /\ call.branch # "none"

(* C1: the first call of Next on a fresh driver returns true, without      *)
(* calling calc() and without waiting, whatever the configuration and      *)
(* whether or not the signal has already fired.                            *)
FirstCallTrue ==
    /\ calls = 0 => pc = "idle" /\ calcs = 0
    /\ calls >= 1 => trues >= 1
    /\ calls = 1 /\ pc = "idle" =>
          /\ call.result /\ ~stopped
          /\ calcs = 0 /\ call.calcs = 0 /\ call.waited = 0
          /\ calculator = New(cfg).calculator

FirstCallTrueWitness ==
    /\ calls = 1 /\ pc = "idle" /\ call.result
    /\ call.doneAtEntry
    /\ cfg.MaxAttempts = 0

(* C2: with MaxAttempts = N >= 1 and no explicit signal, Next returns true *)
(* exactly N times and then false on call N + 1.                           *)
ExactlyNAttempts ==
    (cfg.Context = "nil" /\ cfg.MaxAttempts >= 1) =>
        /\ trues = Min(calls, cfg.MaxAttempts)
        /\ stopped = (calls > cfg.MaxAttempts)

ExactlyNAttemptsWitness ==
    /\ cfg.Context = "nil" /\ cfg.MaxAttempts = MaxN /\ cfg.alg = "Jitter"
    /\ calls = MaxN + 1 /\ stopped /\ trues = MaxN
    /\ defaultTimeoutDuration < calculator.interval

(* C3: with MaxAttempts set and no explicit signal the driver installs no  *)
(* timeout: its signal never fires and no call returns false because of a  *)
(* deadline, whatever the default timeout.                                 *)
NoTimeoutWhenMaxAttempts ==
    (cfg.Context = "nil" /\ cfg.MaxAttempts # 0) =>
        /\ ctx \in {"nil", "Background"}
        /\ signal = NoSignal
        /\ ~Done(ctx, signal)
        /\ Returned /\ ~call.result => call.branch = "exhausted"

NoTimeoutWhenMaxAttemptsWitness ==
    /\ cfg.Context = "nil" /\ cfg.MaxAttempts # 0
    /\ Returned /\ call.result /\ call.branch = "timer"
    /\ call.waited > defaultTimeoutDuration

(* C4: with no explicit signal and MaxAttempts = 0 the first call creates  *)
(* a signal that fires after the default timeout, and the loop ends: some  *)
(* call returns false, and none does before the signal has fired.          *)
DefaultTimeoutTerminates ==
    /\ [][(cfg.Context = "nil" /\ cfg.MaxAttempts = 0 /\ calls = 0 /\ calls' = 1) =>
            signal' = WithTimeout(defaultTimeoutDuration)]_vars
    /\ (cfg.Context = "nil" /\ cfg.MaxAttempts = 0) =>
          /\ [](calls >= 1 => ctx = "WithTimeout")
          /\ [](stopped => signal.done)
          /\ <>stopped

DefaultTimeoutTerminatesWitness ==
    /\ cfg.Context = "nil" /\ cfg.MaxAttempts = 0
    /\ stopped /\ signal.done /\ trues >= 2
    /\ Returned /\ call.branch = "done" /\ call.waited > 0

(* C5: with an explicit deadline and MaxAttempts = 0 the loop ends; a call *)
(* returns false only once the signal has fired, which, unless the caller  *)
(* cancelled it, is when its deadline has passed; MaxAttempts = 0 never    *)
(* stops the loop.                                                         *)
DeadlineTerminates ==
    (cfg.Context # "nil" /\ cfg.MaxAttempts = 0) =>
        /\ [](stopped => signal.done)
        /\ [](stopped /\ ~signal.cancelled => signal.timer = "off" /\ signal.remaining = 0)
        /\ [](call.branch # "exhausted")
        /\ <>stopped

DeadlineTerminatesWitness ==
    /\ cfg.Context # "nil" /\ cfg.MaxAttempts = 0 /\ cfg.Timeout > 0
    /\ stopped /\ signal.done /\ ~signal.cancelled /\ trues >= 2
    /\ Returned /\ call.branch = "done" /\ call.waited > 0 /\ call.left > 0

(* C6 as stated: once the signal has fired, every later call of Next       *)
(* returns false, without waiting.                                         *)
OnceFiredAlwaysFalse ==
    Returned /\ call.doneAtEntry => ~call.result /\ call.waited = 0

(* C6 as amended: once the signal has fired, every later call of Next      *)
(* returns without waiting, and returns false unless it is the driver's    *)
(* first call or its calculated interval is zero or negative, so that the  *)
(* expired timer can win the select.                                       *)
OnceFiredNoWait ==
    Returned /\ call.doneAtEntry =>
        /\ call.waited = 0
        /\ call.result => calls = 1 \/ (call.calcs = 1 /\ call.d <= 0)

OnceFiredNoWaitWitness ==
    /\ Returned /\ call.doneAtEntry /\ ~call.result
    /\ call.branch = "done" /\ call.d > 0 /\ call.waited = 0
    /\ calls >= 3

\* a call that reached the select and has returned
Raced == Returned /\ call.branch \in {"done", "timer"}

\* with a deadline shorter than every wait the loop makes one attempt
OneAttemptWhenDeadlineShorter ==
    (cfg.Context # "nil" /\ cfg.Timeout < MinWait(cfg)) =>
        (calls >= 2 => stopped /\ trues = 1)

(* C7 as stated: a call that is neither the first nor the exhausted one    *)
(* calls calc() once and races the signal against the timer: false if the  *)
(* signal fires before the timer elapses, true if the timer elapses before *)
(* the signal fires; with a deadline shorter than the first interval the   *)
(* loop makes exactly one attempt.                                         *)
RaceSignalFirstFalse ==
    /\ Raced =>
          /\ call.calcs = 1
          /\ (call.doneAtEntry \/ (call.done /\ call.left > 0)) => ~call.result
          /\ (~call.done /\ call.left <= 0) => call.result
    /\ OneAttemptWhenDeadlineShorter

(* C7 as amended: such a call calls calc() once; it returns false if the   *)
(* signal fires while the timer is still running and true if the timer     *)
(* elapses while the signal has not fired; when the timer has already      *)
(* elapsed as the select is evaluated (a zero or negative duration) and    *)
(* the signal has fired, either result may be returned.                    *)
RaceWhileTimerRuns ==
    /\ Raced =>
          /\ call.calcs = 1
          /\ (call.done /\ call.left > 0) => ~call.result
          /\ (call.doneAtEntry /\ call.d > 0) => ~call.result
          /\ (~call.done /\ call.left <= 0) => call.result
    /\ OneAttemptWhenDeadlineShorter

RaceWhileTimerRunsWitness ==
    /\ Raced /\ call.branch = "done" /\ ~call.doneAtEntry
    /\ call.waited > 0 /\ call.left > 0
    /\ cfg.Timeout < MinWait(cfg) /\ trues = 1

(* C8: a call of Next made with attempts == MaxAttempts > 0 returns false  *)
(* at once: it starts no timer and does not call calc(), so the            *)
(* calculator's state is as it was.                                        *)
ExhaustedLeavesCalculator ==
    [][(pc = "idle" /\ maxAttempts > 0 /\ attempts = maxAttempts
            /\ (attempts' # attempts \/ pc' # pc))
        => /\ pc' = "idle" /\ after' = after
           /\ ~call'.result /\ call'.waited = 0
           /\ calculator' = calculator /\ calcs' = calcs]_vars

ExhaustedLeavesCalculatorWitness ==
    /\ Returned /\ ~call.result /\ attempts = maxAttempts + 1
    /\ ~signal.done
    /\ calculator.alg = "ExponentialBackoff" /\ calculator.attempt = maxAttempts - 1
    /\ maxAttempts >= 2

(* C9: attempts is the number of completed calls of Next: 0 at first,      *)
(* never decreasing, and one more after every call, whichever path the     *)
(* call returned on (counters are exact below MaxCalls).                   *)
AttemptsCountCalls ==
    /\ [](attempts = calls)
    /\ [][attempts' >= attempts]_vars
    /\ [][(pc' = "idle" /\ call' # call /\ attempts < MaxCalls)
             => attempts' = attempts + 1]_vars
    /\ [][(pc' = "select" \/ call' = call) => attempts' = attempts]_vars

AttemptsCountCallsWitness ==
    /\ attempts = 4 /\ calls = 4 /\ trues = 2 /\ stopped
    /\ Returned /\ call.result /\ call.branch = "timer"

(* C10: with an explicit signal and MaxAttempts = N > 0 the loop stops at  *)
(* the limit reached first: Next returns true at most N times, and it      *)
(* returns false only when attempts was N or the signal has fired.         *)
StopsAtFirstLimit ==
    (cfg.Context # "nil" /\ cfg.MaxAttempts >= 1) =>
        /\ trues <= cfg.MaxAttempts
        /\ calls > cfg.MaxAttempts => stopped
        /\ Returned /\ ~call.result =>
              attempts = cfg.MaxAttempts + 1 \/ signal.done

StopsAtFirstLimitWitness ==
    /\ cfg.Context # "nil" /\ cfg.MaxAttempts = MaxN
    /\ Returned /\ ~call.result /\ call.branch = "done"
    /\ signal.done /\ ~signal.cancelled /\ call.waited > 0
    /\ trues = 2 /\ calls = 3

(* C11: without an explicit signal New leaves r.ctx nil; the first call of *)
(* Next resolves it, to a timeout of the value defaultTimeoutDuration has  *)
(* at that moment when MaxAttempts = 0; once set, r.ctx is never replaced  *)
(* and its timer is never armed again, whatever is assigned to             *)
(* defaultTimeoutDuration later; an explicit signal is never replaced.     *)
SignalResolvedOnFirstCall ==
    /\ [](cfg.Context = "nil" /\ calls = 0 => ctx = "nil" /\ signal = NoSignal)
    /\ [](calls >= 1 => ctx # "nil")
    /\ [](cfg.Context # "nil" => ctx = "Context")
    /\ [][(ctx = "nil" /\ ctx' # "nil") =>
            /\ calls = 0 /\ calls' = 1
            /\ maxAttempts = 0 =>
                  ctx' = "WithTimeout" /\ signal' = WithTimeout(defaultTimeoutDuration)
            /\ maxAttempts # 0 => ctx' = "Background" /\ signal' = NoSignal]_vars
    /\ [][ctx # "nil" =>
            /\ ctx' = ctx
            /\ signal'.remaining <= signal.remaining
            /\ signal.done => signal'.done]_vars

SignalResolvedOnFirstCallWitness ==
    /\ cfg.Context = "nil" /\ ctx = "WithTimeout" /\ calls >= 2
    /\ signal.timer = "on" /\ signal.remaining > defaultTimeoutDuration
    /\ signal.remaining < 10 * Millisecond

(* C12: for a Jitter calculator with 0 < Base <= Max every result of       *)
(* calc(), after any number of calls, lies in [Base, Max], and so does the *)
(* interval it keeps; no call of Next waits longer than Max.               *)
JitterWithinBaseMax ==
    (calculator.alg = "Jitter" /\ 0 < calculator.Base
        /\ calculator.Base <= calculator.Max) =>
        /\ (calcs = 0) = (calculator.interval = 0)
        /\ calcs > 0 =>
              calculator.Base <= calculator.interval
                  /\ calculator.interval <= calculator.Max
        /\ call.calcs = 1 =>
              /\ calculator.Base <= call.d /\ call.d <= calculator.Max
              /\ call.d = calculator.interval
              /\ call.waited <= calculator.Max
        /\ pc = "select" => after <= calculator.Max

JitterWithinBaseMaxWitness ==
    /\ calculator.alg = "Jitter" /\ 0 < calculator.Base
    /\ calculator.Base < calculator.Max
    /\ Returned /\ call.branch = "timer" /\ calcs >= 3
    /\ call.d = calculator.Max /\ call.waited = calculator.Max

\* min(Max, Base * 2^j), for a counter that is exact below MaxCalls
Cap(calc, j) ==
    IF j >= MaxCalls THEN calc.Max ELSE Min(calc.Max, calc.Base * Pow2(j))

(* C13: for an ExponentialBackoff calculator with Base > 0 the i-th call   *)
(* of calc() returns a value in [min(Max, Base * 2^(i-1)),                 *)
(* min(Max, Base * 2^i)], so that no result exceeds Max.                   *)
ExponentialBackoffRange ==
    (calculator.alg = "ExponentialBackoff" /\ calculator.Base > 0
        /\ calculator.attempt >= 1) =>
        /\ Cap(calculator, calculator.attempt - 1) <= call.d
        /\ call.d <= Cap(calculator, calculator.attempt)
        /\ call.d <= calculator.Max

(* C14: for an ExponentialBackoff calculator with 0 < Base (and Base <=    *)
(* Max, as in the test) no result of calc() is smaller than the result     *)
(* before it, and the first is not smaller than Base.                      *)
ExponentialBackoffNonDecreasing ==
    [][(calculator.alg = "ExponentialBackoff" /\ 0 < calculator.Base
            /\ calculator.Base <= calculator.Max
            /\ calculator'.attempt # calculator.attempt)
        => call'.d >= call.d]_vars

\* the Jitter calculator of TestJitter_calc
SampledJitter ==
    /\ calculator.alg = "Jitter"
    /\ calculator.Base = Millisecond /\ calculator.Max = Hour

ConstantCalcReturnsInterval ==
    cfg.alg = "Constant" =>
        LET interval == IF cfg.Interval = 0 THEN Second ELSE cfg.Interval
        IN  /\ calculator = Calculator("Constant", interval, 0, 0)
            /\ call.calcs = 1 => call.d = interval
            /\ pc = "select" => after = interval - call.waited

ConstantCalcReturnsIntervalWitness ==
    /\ cfg.alg = "Constant" /\ cfg.Interval = 0
    /\ Returned /\ call.branch = "timer" /\ calcs >= 2
    /\ call.d = Second /\ call.waited = Second

(* C17: with MaxAttempts = N >= 1 and no signal the loop, run until Next   *)
(* returns false, waits exactly N - 1 times: calc() is called once by each *)
(* of the calls 2..N and by no other, and each of these calls waits for    *)
(* the whole duration calc() returned (not at all when it is negative);    *)
(* for Constant that duration is Interval every time.                      *)
WaitsBetweenAttempts ==
    (cfg.Context = "nil" /\ cfg.MaxAttempts >= 1
        /\ (calls <= cfg.MaxAttempts \/ (calls = cfg.MaxAttempts + 1 /\ pc = "idle"))) =>
        /\ calcs = (IF calls = 0 THEN 0 ELSE Min(calls, cfg.MaxAttempts) - 1)
                      + (IF pc = "select" THEN 1 ELSE 0)
        /\ stopped => calcs = cfg.MaxAttempts - 1
        /\ Returned /\ (calls = 1 \/ ~call.result) =>
              call.calcs = 0 /\ call.waited = 0
        /\ Returned /\ calls > 1 /\ call.result =>
              /\ call.calcs = 1 /\ call.branch = "timer"
              /\ call.waited = Max(call.d, 0)
              /\ cfg.alg = "Constant" => call.d = calculator.Interval

WaitsBetweenAttemptsWitness ==
    /\ cfg.Context = "nil" /\ cfg.MaxAttempts = MaxN /\ cfg.alg = "Constant"
    /\ cfg.Interval = 4 * Millisecond
    /\ stopped /\ calls = MaxN + 1 /\ calcs = MaxN - 1
    /\ Returned /\ call.branch = "exhausted"

\* a driver built from ExponentialBackoff{} whose first call found
\* defaultTimeoutDuration at 10ms
EmptyExponentialBackoff ==
    /\ cfg = Config("ExponentialBackoff", "nil", 0, 0, 0, 0, 0)
    /\ ctx = "WithTimeout" /\ signal.timeout = 10 * Millisecond

(* C18 as stated: with defaultTimeoutDuration set to 10ms a driver built   *)
(* from ExponentialBackoff{} stops when 10ms have passed, and Next has     *)
(* returned true at least twice by then.                                   *)
EmptyExponentialBackoffTwoAttempts ==
    (EmptyExponentialBackoff /\ stopped) =>
        /\ signal.done /\ signal.remaining = 0
        /\ trues >= 2

(* C18 as amended: such a driver stops when the 10ms have passed, and Next *)
(* has returned true exactly once: the second call waits for at least      *)
(* Base = 1 second, and the signal fires first.                            *)
EmptyExponentialBackoffOneAttempt ==
    EmptyExponentialBackoff =>
        /\ trues = 1
        /\ stopped => signal.done /\ signal.remaining = 0 /\ ~signal.cancelled
        /\ calls >= 2 => stopped
        /\ Returned /\ calls = 2 =>
              /\ ~call.result /\ call.branch = "done"
              /\ call.d >= Second /\ call.waited <= 10 * Millisecond

EmptyExponentialBackoffOneAttemptWitness ==
    /\ EmptyExponentialBackoff
    /\ Returned /\ calls = 2 /\ stopped /\ trues = 1
    /\ call.waited = 10 * Millisecond /\ call.left > 0

(* C19: a Jitter configuration with Max left 0 is given a Max of 15        *)
(* seconds by the constructor, and one with Base left 0 a Base of 1        *)
(* second, so that no calc() result and no wait of such a driver exceeds   *)
(* 15 seconds.                                                             *)
JitterDefaultMax ==
    (cfg.alg = "Jitter" /\ cfg.Max = 0) =>
        /\ calculator.Max = 15 * Second
        /\ cfg.Base = 0 => calculator.Base = Second
        /\ call.calcs = 1 => call.d <= 15 * Second /\ call.waited <= 15 * Second

SequentialUnlessOverlapped ==
    ~th.overlapped =>
        /\ (\A t \in Threads : th.pc[t] = "idle") => attempts = calls
        /\ trues = Min(calls, maxAttempts)
        /\ stopped = (calls > maxAttempts)

SequentialUnlessOverlappedWitness ==
    /\ th.overlapped /\ \A t \in Threads : th.pc[t] = "idle"
    /\ calls = 2 /\ attempts = 1
    /\ maxAttempts = 1 /\ trues = 2 /\ ~stopped

(* C22: two drivers built from the same configuration with MaxAttempts = N *)
(* and no signal return the same sequence of results from Next, N times    *)
(* true and then false, whatever their random draws are.                   *)
SameResults ==
    \A i, j \in Threads :
        /\ Len(twin[i].results) <= cfg.MaxAttempts + 1
        /\ \A p \in 1..Len(twin[i].results) :
              /\ twin[i].results[p] = (p <= cfg.MaxAttempts)
              /\ p <= Len(twin[j].results) => twin[i].results[p] = twin[j].results[p]

SameResultsWitness ==
    /\ \A i \in Threads : Len(twin[i].results) = cfg.MaxAttempts + 1
    /\ cfg.MaxAttempts >= 2
    /\ heap[twin[1].ref].interval # heap[twin[2].ref].interval

(* C25: a calculator belongs to one driver.  New copies the configuration  *)
(* value, so two drivers built from one Jitter or ExponentialBackoff value *)
(* have calculators of their own, a call of Next changes the calculator of *)
(* its driver only, and the caller's value is never changed.               *)
CalculatorOwned ==
    /\ [](/\ heap[0] = Struct(cfg)
          /\ \A i \in Threads : twin[i].built => twin[i].ref # 0
          /\ \A i, j \in Threads :
                twin[i].built /\ twin[j].built /\ i # j => twin[i].ref # twin[j].ref)
    /\ [][\A a \in Addresses : heap'[a] # heap[a] =>
              \E i \in Threads :
                  /\ twin'[i].ref = a
                  /\ twin'[i] # twin[i]
                  /\ \A j \in Threads \ {i} : twin'[j] = twin[j]]_vars

CalculatorOwnedWitness ==
    /\ \A i \in Threads : twin[i].built /\ Len(twin[i].results) >= 2
    /\ cfg.alg = "ExponentialBackoff" /\ cfg.Base = 0
    /\ heap[twin[1].ref].attempt = 2
    /\ heap[twin[2].ref].attempt = 1
    /\ heap[0].attempt = 0 /\ heap[0].Base = 0

(* C23 as stated: a stopped driver stays stopped: once Next has returned   *)
(* false, every later call returns false.                                  *)
StoppedStaysStopped == Returned /\ stopped => ~call.result

(* C23 as amended: once Next has returned false, a later call returns true *)
(* only by reaching the wait step and having its timer win the select,     *)
(* which it cannot when the signal had fired before the call and the       *)
(* calculated interval is positive; the MaxAttempts test stops one call    *)
(* only, the one after MaxAttempts calls, and the calls after it wait and  *)
(* return true again.                                                      *)
StoppedUnlessTimerWins ==
    /\ Returned /\ stopped /\ call.result =>
          /\ call.branch = "timer" /\ call.calcs = 1
          /\ call.doneAtEntry => call.d <= 0
    /\ Returned /\ call.branch = "exhausted" => calls = maxAttempts + 1

StoppedUnlessTimerWinsWitness ==
    /\ Returned /\ stopped /\ call.result
    /\ call.branch = "timer" /\ call.waited > 0
    /\ maxAttempts >= 1 /\ calls = maxAttempts + 2

(* C24: for every configuration without an explicit signal, whatever the   *)
(* value of MaxAttempts, the loop `for r.Next() {}` ends: some call of     *)
(* Next returns false.                                                     *)
NoSignalLoopTerminates == (cfg.Context = "nil") => <>stopped

(* C26: the attempt counter of ExponentialBackoff changes only when a call *)
(* of Next reaches the wait step, and then by one; so after sequential     *)
(* calls none of which took the MaxAttempts branch it is                   *)
(* max(0, attempts - 1).                                                   *)
AttemptCountsWaits ==
    /\ [](/\ calculator.alg = "ExponentialBackoff" /\ pc = "idle"
          /\ attempts < MaxCalls
          /\ ~(maxAttempts >= 1 /\ attempts > maxAttempts)
          => calculator.attempt = Max(0, attempts - 1))
    /\ [][calculator'.attempt # calculator.attempt =>
              /\ pc = "idle" /\ pc' = "select"
              /\ Branch(attempts, maxAttempts) = "select"
              /\ calculator.attempt < MaxCalls =>
                    calculator'.attempt = calculator.attempt + 1]_vars

AttemptCountsWaitsWitness ==
    /\ calculator.alg = "ExponentialBackoff" /\ Returned /\ call.result
    /\ attempts = 4 /\ calculator.attempt = 3
    /\ call.branch = "timer" /\ call.waited > 0

(* C27: for a Jitter calculator with 0 < Base <= Max, after every calc()   *)
(* the stored interval is the value that call returned, and every result   *)
(* is at most min(Max, 3 * the stored interval), the stored interval       *)
(* counting as Base at the first call, when nothing is stored yet.         *)
JitterStoresResult ==
    [][(calculator.alg = "Jitter" /\ 0 < calculator.Base
            /\ calculator.Base <= calculator.Max) =>
        /\ calculator'.interval = call'.d
        /\ (calculator.interval = 0) = (calcs = 0)
        /\ call'.d <= Min(calculator.Max,
                          3 * (IF calcs = 0 THEN calculator.Base
                                            ELSE calculator.interval))]_vars

JitterStoresResultWitness ==
    /\ calculator.alg = "Jitter" /\ calculator.Base = 2 * Millisecond
    /\ calcs = 2
    /\ calculator.interval = calculator.Max /\ call.d = calculator.Max

\* the driver made its own timeout context
OwnTimeout == helper.state # "none"

\* the caller's loop is over: Next returned false, or the caller left by break
LoopEnded == stopped \/ loop = "left"

(* C28: for a driver that created its own timeout signal, when the signal  *)
(* has fired or the caller's loop has ended, no timer of that signal is    *)
(* held any more.                                                          *)
TimerReleasedWhenLoopEnded ==
    OwnTimeout /\ (signal.done \/ LoopEnded) => signal.timer = "off"

(* C29: a zero or negative duration from calc() is no wait: the timer has  *)
(* elapsed at once, Next returns without blocking, and it returns true     *)
(* when the signal has not fired.                                          *)
NonPositiveIsNoWait ==
    Raced /\ call.d <= 0 =>
        /\ call.waited = 0
        /\ ~call.done => call.result /\ call.branch = "timer"

NonPositiveIsNoWaitWitness ==
    /\ Raced /\ call.d < 0 /\ cfg.Interval < 0
    /\ call.result /\ call.waited = 0 /\ ~signal.done
    /\ calls >= 3

(* C30: every loop over a default singleton, a second loop after an        *)
(* earlier one has finished included, makes at least one attempt.          *)
SingletonLoopAttempts ==
    opt.loops >= 1 /\ ~opt.running => opt.tries >= 1

\* baseInterval * 2^k / factor, as far as it stays below maxInterval
FactorFloor(r) ==
    Min(r.maxInterval,
        Doubled(r.baseInterval, r.k, r.factor * r.maxInterval) \div r.factor)

(* C31: in the factor-based revision every wait, at every attempt count k  *)
(* >= 1, lies between min(maxInterval, baseInterval * 2^k / factor) and    *)
(* maxInterval: a Constant driver waits exactly Interval, and the wait is  *)
(* never negative.                                                         *)
FactorWaitInRange ==
    opt.waited =>
        /\ FactorFloor(opt) <= opt.d /\ opt.d <= opt.maxInterval
        /\ opt.factor = 1 => opt.d = opt.baseInterval
        /\ opt.d >= 0

\* min(max, base * 2^n)
Capped(r, n) == Min(r.maxInterval, Doubled(r.baseInterval, n, r.maxInterval))

(* C32: for ExponentialBackoff with the same base, max, MaxAttempts and    *)
(* explicit signal, the calculator-based and the factor-based driver, run  *)
(* over the same calls of Next, agree: each call returns the same result   *)
(* in both, the k-th wait of both is the same value from                    *)
(* [min(max, base * 2^(k-1)), min(max, base * 2^k)], and the calculator's  *)
(* counter is the attempts counter the factor-based driver used.           *)
DriversEquivalent ==
    calls >= 1 =>
        /\ call.result = opt.result
        /\ (call.calcs = 1) = opt.waited
        /\ opt.waited =>
              /\ call.d = opt.d
              /\ Capped(opt, opt.k - 1) <= opt.d /\ opt.d <= Capped(opt, opt.k)
              /\ opt.k < MaxCalls => calculator.attempt = opt.k

====
